---- MODULE Spec2Model ----
(***************************************************************************)
(* A model of the three-day-cycle trading-zone system:                     *)
(*   - core/date_manager.py   DateManager   (trading calendar)             *)
(*   - core/execute_day.py    ExecuteDayMonitor (get_monitoring_data,      *)
(*                            proximity classifier, alert filter)          *)
(*   - core/zone_detector.py  ZoneDetector  (impulse zone extraction)      *)
(*   - database/db_manager.py DatabaseManager (the zones table) and the    *)
(*                            calls of core/fetch_day.py, core/            *)
(*                            execute_day.py and app.py that use it        *)
(*                                                                         *)
(* Representation.                                                         *)
(*   A 'YYYY-MM-DD' string is the tuple <<year, month, day>> of its three  *)
(*   fields.  A datetime at midnight is its proleptic Gregorian ordinal    *)
(*   (datetime.toordinal()).  strptime and strftime convert between the    *)
(*   two the way the datetime library does.  None is the empty tuple.      *)
(*   Prices are integers in paise (1/100 rupee); percentages and means     *)
(*   are exact rationals <<numerator, denominator>> compared by cross      *)
(*   multiplication.                                                       *)
(***************************************************************************)
EXTENDS Integers, Sequences, FiniteSets, TLC

VARIABLES
    holidays,       \* DateManager.NSE_HOLIDAYS_2026 as the calls read it
    cal_op,         \* the DateManager method last called
    cal_arg,        \* the date string the call is made with
    cal_today,      \* datetime.now() at midnight on the day of the call
    cal_end,        \* get_trading_days_between: the end date string
    cal_ret,        \* its return value
    ltp,            \* _calculate_proximity: the price
    zones,          \* _calculate_proximity: the zone list
    prox_ret,       \* _calculate_proximity: the returned tuple
    monitoring_data,\* get_alerts: the list passed in
    alerts,         \* get_alerts: the list returned
    df,             \* ZoneDetector: the candle series passed in
    det_op,         \* the ZoneDetector method called
    det_idx,        \* find_origin_zone: impulse_start_idx
    det_ret,        \* its return value
    det_calls,      \* extract_zones: the detector methods it called, in order
    candles,        \* market data: symbol -> the Fetch Day's candle series
    store,          \* the zones table, rows in insertion order
    pc,             \* caller -> its position in the call it is making
    req,            \* caller -> the call it is making and its arguments
    local,          \* caller -> the local variables of its call
    mon_ret,        \* get_monitoring_data: the dictionary returned
    mon_calls       \* get_monitoring_data: the collaborator calls made, in order

calVars == <<holidays, cal_op, cal_arg, cal_today, cal_end, cal_ret>>
proxVars == <<ltp, zones, prox_ret>>
alertVars == <<monitoring_data, alerts>>
detVars == <<df, det_op, det_idx, det_ret, det_calls>>

storeVars == <<candles, store, pc, req, local>>

monVars == <<mon_ret, mon_calls>>

vars == <<calVars, proxVars, alertVars, detVars, storeVars, monVars>>

None == <<>>

Abs(x) == IF x < 0 THEN -x ELSE x

(***************************************************************************)
(* The datetime library: ordinals, weekdays, parsing and formatting.       *)
(***************************************************************************)
IsLeap(y) == y % 4 = 0 /\ (y % 100 # 0 \/ y % 400 = 0)

DaysInMonth(y, m) ==
    IF m = 2 THEN (IF IsLeap(y) THEN 29 ELSE 28)
    ELSE IF m \in {4, 6, 9, 11} THEN 30 ELSE 31

RECURSIVE DaysBeforeMonth(_, _)
DaysBeforeMonth(y, m) ==
    IF m <= 1 THEN 0 ELSE DaysBeforeMonth(y, m - 1) + DaysInMonth(y, m - 1)

DaysBeforeYear(y) ==
    (y - 1) * 365 + ((y - 1) \div 4) - ((y - 1) \div 100) + ((y - 1) \div 400)

\* datetime(y, m, d).toordinal()
ToOrdinal(s) == DaysBeforeYear(s[1]) + DaysBeforeMonth(s[1], s[2]) + s[3]

\* datetime.weekday(): Monday = 0 ... Sunday = 6
Weekday(date) == (date + 6) % 7

\* strptime(s, '%Y-%m-%d') raises ValueError unless s names a real date
Parseable(s) ==
    /\ s[2] \in 1..12
    /\ s[3] \in 1..DaysInMonth(s[1], s[2])

strptime(s) == ToOrdinal(s)

\* date.strftime('%Y-%m-%d'): the year, month and day of an ordinal
strftime(date) ==
    LET y  == CHOOSE yy \in ((date \div 366))..((date \div 365) + 1) :
                  DaysBeforeYear(yy) < date /\ date <= DaysBeforeYear(yy + 1)
        n  == date - DaysBeforeYear(y)
        m  == CHOOSE mm \in 1..12 :
                  /\ DaysBeforeMonth(y, mm) < n
                  /\ n <= DaysBeforeMonth(y, mm) + DaysInMonth(y, mm)
    IN  <<y, m, n - DaysBeforeMonth(y, m)>>

(***************************************************************************)
(* DateManager                                                             *)
(***************************************************************************)
NSE_HOLIDAYS_2026 ==
    << <<2026, 1, 26>>, <<2026, 3, 3>>,  <<2026, 3, 30>>, <<2026, 4, 2>>,
       <<2026, 4, 3>>,  <<2026, 4, 14>>, <<2026, 5, 1>>,  <<2026, 8, 15>>,
       <<2026, 8, 19>>, <<2026, 10, 2>>, <<2026, 10, 20>>, <<2026, 11, 4>>,
       <<2026, 11, 5>>, <<2026, 11, 25>>, <<2026, 12, 25>> >>

\* x in list
InList(x, list) == \E i \in 1..Len(list) : list[i] = x

is_trading_day_weekend_off_by_one(date) ==
    IF Weekday(date) >= 6 THEN FALSE
    ELSE IF InList(strftime(date), holidays) THEN FALSE
    ELSE TRUE

is_trading_day(date) ==
    IF Weekday(date) >= 5 THEN FALSE
    ELSE IF InList(strftime(date), holidays) THEN FALSE
    ELSE TRUE

max_lookback == 10

\* the loop of get_previous_trading_day with the last date tested as fallback
RECURSIVE PreviousLoop_falls_back_to_last_tested(_, _, _)
PreviousLoop_falls_back_to_last_tested(date, current, k) ==
    IF k >= max_lookback THEN current
    ELSE IF is_trading_day(current) THEN current
    ELSE PreviousLoop_falls_back_to_last_tested(date, current - 1, k + 1)

\* the for loop of get_previous_trading_day, k iterations done
RECURSIVE PreviousLoop(_, _, _)
PreviousLoop(date, current, k) ==
    IF k >= max_lookback THEN date - 1
    ELSE IF is_trading_day(current) THEN current
    ELSE PreviousLoop(date, current - 1, k + 1)

get_previous_trading_day_starts_at_date(date) == PreviousLoop(date, date, 0)

get_previous_trading_day(date) == PreviousLoop(date, date - 1, 0)

\* the while loop of get_trading_days_between with the end date left out
RECURSIVE BetweenLoop_end_exclusive(_, _, _)
BetweenLoop_end_exclusive(current, end_dt, trading_days) ==
    IF current < end_dt
    THEN BetweenLoop_end_exclusive(current + 1, end_dt,
             IF is_trading_day(current)
             THEN Append(trading_days, strftime(current))
             ELSE trading_days)
    ELSE trading_days

\* the while loop of get_trading_days_between
RECURSIVE BetweenLoop(_, _, _)
BetweenLoop(current, end_dt, trading_days) ==
    IF current <= end_dt
    THEN BetweenLoop(current + 1, end_dt,
             IF is_trading_day(current)
             THEN Append(trading_days, strftime(current))
             ELSE trading_days)
    ELSE trading_days

get_trading_days_between(start_date, end_date) ==
    BetweenLoop(strptime(start_date), strptime(end_date), <<>>)

\* the while loop of calculate_fetch_day
RECURSIVE FetchLoop_three_steps(_, _)
FetchLoop_three_steps(current, trading_days_back) ==
    IF trading_days_back <= 2
    THEN FetchLoop_three_steps(get_previous_trading_day(current), trading_days_back + 1)
    ELSE current

RECURSIVE FetchLoop(_, _)
FetchLoop(current, trading_days_back) ==
    IF trading_days_back < 2
    THEN FetchLoop(get_previous_trading_day(current), trading_days_back + 1)
    ELSE current

\* defined for parseable strings; strptime raises ValueError otherwise
calculate_fetch_day(execute_day) == strftime(FetchLoop(strptime(execute_day), 0))

FutureError(fetch_day) == <<"Fetch Day is in the future. No historical data available.", fetch_day>>
FormatError == <<"Invalid date format">>

validate_execute_day_rejects_today(execute_day, today) ==
    IF ~Parseable(execute_day) THEN <<FALSE, None, FormatError>>
    ELSE LET fetch_day == calculate_fetch_day(execute_day)
             fetch_dt  == strptime(fetch_day)
         IN  IF fetch_dt >= today
             THEN <<FALSE, None, FutureError(fetch_day)>>
             ELSE <<TRUE, fetch_day, None>>

validate_execute_day(execute_day, today) ==
    IF ~Parseable(execute_day) THEN <<FALSE, None, FormatError>>
    ELSE LET fetch_day == calculate_fetch_day(execute_day)
             fetch_dt  == strptime(fetch_day)
         IN  IF fetch_dt > today
             THEN <<FALSE, None, FutureError(fetch_day)>>
             ELSE <<TRUE, fetch_day, None>>

(***************************************************************************)
(* Calendar specification: one DateManager call on each input.             *)
(***************************************************************************)
HolidayYear == 2026
YearsAhead == 0

\* the date strings a caller may pass: every day-of-month 1..31 of every
\* month, so the strings that name no real date (02-30, 04-31) are included
DateStrings ==
    {<<y, m, d>> : y \in HolidayYear..(HolidayYear + YearsAhead), m \in 1..12, d \in 1..31}

\* the days on which the calls are made
Todays ==
    {strptime(s) : s \in {<<2026, 1, 22>>, <<2026, 1, 28>>, <<2026, 1, 31>>,
                          <<2026, 4, 1>>, <<2026, 11, 3>>, <<2026, 12, 31>>}}

\* the holiday list as shipped, and the list after an annual update that adds
\* a two-week market closure (2026-03-02 .. 2026-03-13)
ClosureCalendar ==
    NSE_HOLIDAYS_2026 \o
    << <<2026, 3, 2>>, <<2026, 3, 4>>, <<2026, 3, 5>>, <<2026, 3, 6>>, <<2026, 3, 9>>,
       <<2026, 3, 10>>, <<2026, 3, 11>>, <<2026, 3, 12>>, <<2026, 3, 13>> >>

Calendars == {NSE_HOLIDAYS_2026, ClosureCalendar}

\* the components a specification leaves out stay as they are
IdleCalendar ==
    /\ holidays = NSE_HOLIDAYS_2026
    /\ cal_op = "idle"
    /\ cal_arg = None
    /\ cal_today = None
    /\ cal_end = None
    /\ cal_ret = None

IdleProximity == ltp = 0 /\ zones = <<>> /\ prox_ret = None

IdleAlerts == monitoring_data = <<>> /\ alerts = None

IdleDetector == df = <<>> /\ det_op = "init" /\ det_idx = 0 /\ det_ret = None /\ det_calls = <<>>

\* get_monitoring_data not called
IdleMonitor == mon_ret = None /\ mon_calls = <<>>

IdleStore ==
    candles = <<>> /\ store = <<>> /\ pc = <<>> /\ req = <<>> /\ local = <<>>

\* a call is made on some day, under some holiday list, with some date string
InitCalendar ==
    /\ holidays \in Calendars
    /\ cal_op = "init"
    /\ cal_arg \in DateStrings
    /\ cal_today \in Todays
    /\ cal_end = None
    /\ cal_ret = None
    /\ IdleProximity
    /\ IdleAlerts
    /\ IdleDetector
    /\ IdleStore
    /\ IdleMonitor

\* is_trading_day(strptime(cal_arg))
IsTradingDay ==
    /\ cal_op = "init"
    /\ Parseable(cal_arg)
    /\ cal_op' = "is_trading_day"
    /\ cal_ret' = is_trading_day(strptime(cal_arg))
    /\ UNCHANGED <<holidays, cal_arg, cal_today, cal_end, proxVars, alertVars, detVars, storeVars, monVars>>

\* get_previous_trading_day(strptime(cal_arg))
GetPreviousTradingDay ==
    /\ cal_op = "init"
    /\ Parseable(cal_arg)
    /\ cal_op' = "get_previous_trading_day"
    /\ cal_ret' = get_previous_trading_day(strptime(cal_arg))
    /\ UNCHANGED <<holidays, cal_arg, cal_today, cal_end, proxVars, alertVars, detVars, storeVars, monVars>>

CalculateFetchDay ==
    /\ cal_op = "init"
    /\ cal_op' = "calculate_fetch_day"
    /\ cal_ret' = IF Parseable(cal_arg) THEN calculate_fetch_day(cal_arg)
                  ELSE <<"ValueError">>
    /\ UNCHANGED <<holidays, cal_arg, cal_today, cal_end, proxVars, alertVars, detVars, storeVars, monVars>>

ValidateExecuteDay ==
    /\ cal_op = "init"
    /\ cal_op' = "validate_execute_day"
    /\ cal_ret' = validate_execute_day(cal_arg, cal_today)
    /\ UNCHANGED <<holidays, cal_arg, cal_today, cal_end, proxVars, alertVars, detVars, storeVars, monVars>>

\* the end dates of a request for the trading days from a start date on, as
\* days after the start: the day before it, the start itself, and ends up to
\* eleven days later
EndOffsets == {-1, 0, 1, 5, 11}

EndDates(start_date) == {strftime(strptime(start_date) + off) : off \in EndOffsets}

GetTradingDaysBetween ==
    /\ cal_op = "init"
    /\ Parseable(cal_arg)
    /\ \E end_date \in EndDates(cal_arg) :
           /\ cal_end' = end_date
           /\ cal_ret' = get_trading_days_between(cal_arg, end_date)
    /\ cal_op' = "get_trading_days_between"
    /\ UNCHANGED <<holidays, cal_arg, cal_today, proxVars, alertVars, detVars, storeVars, monVars>>

NextCalendar ==
    \/ IsTradingDay
    \/ GetPreviousTradingDay
    \/ CalculateFetchDay
    \/ ValidateExecuteDay
    \/ GetTradingDaysBetween

SpecCalendar == InitCalendar /\ [][NextCalendar]_vars

(***************************************************************************)
(* Calendar properties                                                     *)
(***************************************************************************)
\* 2026-01-03 is a Saturday
SaturdayAnchor == ToOrdinal(<<2026, 1, 3>>)

\* a Saturday, a Sunday or a listed holiday, told without the code's weekday
\* and string comparison
NonTradingDay(d, calendar) ==
    \/ (d - SaturdayAnchor) % 7 \in {0, 1}
    \/ d \in {ToOrdinal(calendar[i]) : i \in 1..Len(calendar)}

\* the calendar has no run of 10 or more consecutive non-trading days
ShortClosuresOnly ==
    [c \in Calendars |->
        \A d \in (ToOrdinal(<<HolidayYear, 1, 1>>) - 40)..ToOrdinal(<<HolidayYear + YearsAhead, 12, 31>>) :
            \E k \in 0..9 : ~NonTradingDay(d - k, c)]

TwoStepsBack(execute_day) ==
    strftime(get_previous_trading_day(get_previous_trading_day(strptime(execute_day))))

\* C1: for every parseable Execute Day E, calculate_fetch_day(E) is
\* get_previous_trading_day applied exactly twice starting from E, and
\* calculate_fetch_day("2026-01-30") is "2026-01-28".
C1_FetchDayIsTwoPreviousTradingDays ==
    (cal_op = "calculate_fetch_day" /\ Parseable(cal_arg)) =>
        /\ cal_ret = TwoStepsBack(cal_arg)
        /\ (cal_arg = <<2026, 1, 30>> => cal_ret = <<2026, 1, 28>>)

C1_Witness ==
    /\ cal_op = "calculate_fetch_day"
    /\ cal_arg = <<2026, 1, 30>>
    /\ cal_ret = <<2026, 1, 28>>

\* C2: under a calendar with no run of 10 or more consecutive non-trading
\* days, the Fetch Day F of every Execute Day E is a trading day, is strictly
\* earlier than E, and exactly one trading day lies strictly between F and E.
C2_FetchDayIsSecondTradingDayBefore ==
    (cal_op = "calculate_fetch_day" /\ Parseable(cal_arg) /\ ShortClosuresOnly[holidays]) =>
        LET E == strptime(cal_arg)
            F == strptime(cal_ret)
        IN  /\ is_trading_day(F)
            /\ F < E
            /\ Cardinality({d \in (F + 1)..(E - 1) : is_trading_day(d)}) = 1

\* an Execute Day that is itself no trading day, with a weekend and a holiday
\* between it and its Fetch Day
C2_Witness ==
    /\ cal_op = "calculate_fetch_day"
    /\ Parseable(cal_arg)
    /\ ShortClosuresOnly[holidays]
    /\ ~is_trading_day(strptime(cal_arg))
    /\ strptime(cal_arg) - strptime(cal_ret) >= 5
    /\ \E d \in (strptime(cal_ret) + 1)..(strptime(cal_arg) - 1) :
           Weekday(d) < 5 /\ ~is_trading_day(d)

\* C3: is_trading_day is false for every Saturday, every Sunday and every
\* date of the holiday list, and true for every other date.
C3_TradingDayIffWeekdayAndNoHoliday ==
    cal_op = "is_trading_day" => cal_ret = ~NonTradingDay(strptime(cal_arg), holidays)

\* a weekday holiday is reported as no trading day
C3_Witness ==
    /\ cal_op = "is_trading_day"
    /\ cal_ret = FALSE
    /\ (strptime(cal_arg) - SaturdayAnchor) % 7 \notin {0, 1}

C5_AcceptedFetchDayStrictlyBeforeToday ==
    (cal_op = "validate_execute_day" /\ cal_ret[1] = TRUE) =>
        strptime(cal_ret[2]) < cal_today

\* the dates d-1 .. d-10 that are trading days, as numbers of days back
TradingDaysBack(d) == {k \in 1..10 : is_trading_day(d - k)}

\* C23: get_previous_trading_day(d) returns the first trading day among
\* d-1, d-2, ..., d-10; when none of these ten dates is a trading day it
\* returns d-1 although d-1 is not a trading day.  The call always returns,
\* and its result is strictly earlier than d.
C23_FirstTradingDayOfTenOrTheDayBefore ==
    (cal_op = "get_previous_trading_day") =>
        LET d == strptime(cal_arg)
            T == TradingDaysBack(d)
        IN  /\ cal_ret \in Nat
            /\ cal_ret < d
            /\ T # {} => \E k \in T : /\ cal_ret = d - k
                                      /\ \A j \in T : k <= j
            /\ T = {} => /\ cal_ret = d - 1
                         /\ ~is_trading_day(cal_ret)

C23_Witness ==
    /\ cal_op = "get_previous_trading_day"
    /\ holidays = ClosureCalendar
    /\ cal_arg = <<2026, 3, 16>>
    /\ TradingDaysBack(strptime(cal_arg)) = {}
    /\ cal_ret = strptime(<<2026, 3, 15>>)

\* C24: get_trading_days_between(start, end) returns, in ascending order and
\* without duplicates, exactly the trading days d with start <= d <= end,
\* both ends included; it returns the empty list when start > end.
C24_TradingDaysOfTheClosedRangeAscending ==
    (cal_op = "get_trading_days_between") =>
        LET start_dt == strptime(cal_arg)
            end_dt   == strptime(cal_end)
        IN  /\ \A i \in 1..Len(cal_ret) :
                   /\ Parseable(cal_ret[i])
                   /\ start_dt <= strptime(cal_ret[i])
                   /\ strptime(cal_ret[i]) <= end_dt
                   /\ is_trading_day(strptime(cal_ret[i]))
            /\ \A d \in start_dt..end_dt :
                   is_trading_day(d) => \E i \in 1..Len(cal_ret) : strptime(cal_ret[i]) = d
            /\ \A i, j \in 1..Len(cal_ret) :
                   i < j => strptime(cal_ret[i]) < strptime(cal_ret[j])
            /\ start_dt > end_dt => cal_ret = <<>>

C24_Witness ==
    /\ cal_op = "get_trading_days_between"
    /\ cal_arg = <<2026, 1, 23>>
    /\ cal_end = <<2026, 1, 28>>
    /\ cal_ret = << <<2026, 1, 23>>, <<2026, 1, 27>>, <<2026, 1, 28>> >>

(***************************************************************************)
(* Exact rationals <<numerator, denominator>>, denominator >= 0.           *)
(* float('inf') is <<1, 0>>: every finite value is below it.               *)
(***************************************************************************)
RatAbs(a) == <<Abs(a[1]), a[2]>>

\* a/b < c/d for a, c >= 0 and b, d > 0, by integer parts and remainders
\* (the products of a cross multiplication do not fit the model checker's
\* integers)
RECURSIVE FracLt(_, _, _, _)
FracLt(a, b, c, d) ==
    IF a \div b # c \div d THEN a \div b < c \div d
    ELSE IF c % d = 0 THEN FALSE
    ELSE IF a % b = 0 THEN TRUE
    ELSE FracLt(d, c % d, b, a % b)

\* x < y for non-negative x and y, y possibly infinite
RatLt(x, y) ==
    IF x[2] = 0 THEN FALSE
    ELSE IF y[2] = 0 THEN TRUE
    ELSE FracLt(x[1], x[2], y[1], y[2])

RatLeq(x, y) == ~RatLt(y, x)
Infinity == <<1, 0>>

(***************************************************************************)
(* ExecuteDayMonitor                                                       *)
(***************************************************************************)
\* config.Config.NEAR_ZONE_PERCENT = 0.5
NEAR_ZONE_PERCENT == <<1, 2>>

\* self.near_threshold = config.Config.NEAR_ZONE_PERCENT / 100.0
near_threshold == <<NEAR_ZONE_PERCENT[1], NEAR_ZONE_PERCENT[2] * 100>>

far_threshold_fifteen == <<15, 1>>

\* self.far_threshold = 1.5
far_threshold == <<3, 2>>

\* ((ltp - zone_mid) / zone_mid) * 100 with zone_mid = (zone_low + zone_high) / 2
DistanceFromMid(price, zone) ==
    <<100 * (2 * price - (zone.zone_low + zone.zone_high)), zone.zone_low + zone.zone_high>>

Inside_strict(price, zone) == zone.zone_low < price /\ price < zone.zone_high

\* zone_low <= ltp <= zone_high
Inside(price, zone) == zone.zone_low <= price /\ price <= zone.zone_high

\* the classification with "First Touch" for a price beyond the far threshold
StatusOfDistance_far_first_touch(abs_distance_pct) ==
    IF RatLeq(abs_distance_pct, near_threshold) THEN <<"NEAR", "First Touch">>
    ELSE IF RatLt(far_threshold, abs_distance_pct) THEN <<"FAR", "First Touch">>
    ELSE <<"NEAR", "No Touch Yet">>

\* the classification with the near threshold excluded from "First Touch"
StatusOfDistance_near_exclusive(abs_distance_pct) ==
    IF RatLt(abs_distance_pct, near_threshold) THEN <<"NEAR", "First Touch">>
    ELSE IF RatLt(far_threshold, abs_distance_pct) THEN <<"FAR", "No Touch Yet">>
    ELSE <<"NEAR", "No Touch Yet">>

\* the classification with "Broken" for a price beyond the far threshold
StatusOfDistance_beyond_is_broken(abs_distance_pct) ==
    IF RatLeq(abs_distance_pct, near_threshold) THEN <<"NEAR", "First Touch">>
    ELSE IF RatLt(far_threshold, abs_distance_pct) THEN <<"FAR", "Broken">>
    ELSE <<"NEAR", "No Touch Yet">>

\* the status and reaction set when a new closest zone is found
StatusOfDistance(abs_distance_pct) ==
    IF RatLeq(abs_distance_pct, near_threshold) THEN <<"NEAR", "First Touch">>
    ELSE IF RatLt(far_threshold, abs_distance_pct) THEN <<"FAR", "No Touch Yet">>
    ELSE <<"NEAR", "No Touch Yet">>

\* the for loop of _calculate_proximity taking a zone at an equal distance
\* as a new minimum
RECURSIVE ProximityLoop_later_tie_wins(_, _, _, _)
ProximityLoop_later_tie_wins(price, zone_list, i, st) ==
    IF i > Len(zone_list)
    THEN <<st.status, st.closest_zone, st.min_distance_pct, st.reaction>>
    ELSE LET zone == zone_list[i]
             distance_from_mid == DistanceFromMid(price, zone)
             abs_distance_pct == RatAbs(distance_from_mid)
         IN  IF Inside(price, zone)
             THEN <<IF zone.zone_type = "BULLISH" THEN "INSIDE_BULLISH" ELSE "INSIDE_BEARISH",
                    zone, distance_from_mid, "Holding">>
             ELSE IF RatLeq(abs_distance_pct, RatAbs(st.min_distance_pct))
                  THEN ProximityLoop_later_tie_wins(price, zone_list, i + 1,
                           [closest_zone |-> zone,
                            min_distance_pct |-> distance_from_mid,
                            status |-> StatusOfDistance(abs_distance_pct)[1],
                            reaction |-> StatusOfDistance(abs_distance_pct)[2]])
                  ELSE ProximityLoop_later_tie_wins(price, zone_list, i + 1, st)

\* the for loop of _calculate_proximity from zone i on; st holds the loop's
\* closest_zone, min_distance_pct, status and reaction
RECURSIVE ProximityLoop(_, _, _, _)
ProximityLoop(price, zone_list, i, st) ==
    IF i > Len(zone_list)
    THEN <<st.status, st.closest_zone, st.min_distance_pct, st.reaction>>
    ELSE LET zone == zone_list[i]
             distance_from_mid == DistanceFromMid(price, zone)
             abs_distance_pct == RatAbs(distance_from_mid)
         IN  IF Inside(price, zone)
             THEN <<IF zone.zone_type = "BULLISH" THEN "INSIDE_BULLISH" ELSE "INSIDE_BEARISH",
                    zone, distance_from_mid, "Holding">>
             ELSE IF RatLt(abs_distance_pct, RatAbs(st.min_distance_pct))
                  THEN ProximityLoop(price, zone_list, i + 1,
                           [closest_zone |-> zone,
                            min_distance_pct |-> distance_from_mid,
                            status |-> StatusOfDistance(abs_distance_pct)[1],
                            reaction |-> StatusOfDistance(abs_distance_pct)[2]])
                  ELSE ProximityLoop(price, zone_list, i + 1, st)

\* _calculate_proximity without the test for an empty list
_calculate_proximity_without_empty_case(price, zone_list) ==
    ProximityLoop(price, zone_list, 1,
        [closest_zone |-> None, min_distance_pct |-> Infinity,
         status |-> "FAR", reaction |-> "No Touch Yet"])

_calculate_proximity(price, zone_list) ==
    IF zone_list = <<>>
    THEN <<"FAR", None, <<100, 1>>, "No Touch Yet">>
    ELSE ProximityLoop(price, zone_list, 1,
             [closest_zone |-> None, min_distance_pct |-> Infinity,
              status |-> "FAR", reaction |-> "No Touch Yet"])

\* the for loop of get_alerts from record i on
RECURSIVE AlertsLoop_status_only(_, _, _)
AlertsLoop_status_only(data_list, i, found) ==
    IF i > Len(data_list) THEN found
    ELSE IF data_list[i].status \in {"INSIDE_BULLISH", "INSIDE_BEARISH", "NEAR"}
         THEN AlertsLoop_status_only(data_list, i + 1, Append(found, data_list[i]))
         ELSE AlertsLoop_status_only(data_list, i + 1, found)

RECURSIVE AlertsLoop(_, _, _)
AlertsLoop(data_list, i, found) ==
    IF i > Len(data_list) THEN found
    ELSE IF data_list[i].status \in {"INSIDE_BULLISH", "INSIDE_BEARISH", "NEAR"}
         THEN IF data_list[i].reaction \in {"First Touch", "Holding"}
              THEN AlertsLoop(data_list, i + 1, Append(found, data_list[i]))
              ELSE AlertsLoop(data_list, i + 1, found)
         ELSE AlertsLoop(data_list, i + 1, found)

get_alerts(data_list) == AlertsLoop(data_list, 1, <<>>)

(***************************************************************************)
(* Proximity specification: _calculate_proximity on each price and each    *)
(* zone list the store can return.                                         *)
(***************************************************************************)
MaxZones == 3

ZoneTypes == {"BEARISH", "BULLISH"}

\* prices in paise
ZonePrices == {70000, 70995, 71000, 72000}

\* the midpoints of zones four paise wide
NarrowZoneMids == {60000, 69300, 70700}

\* 60003 is 0.005% above 60000, and 69993 is 1% above 69300 and 1% below 70700
Prices == {60003, 69000, 69993, 70650, 71000, 71001, 72065, 75000}

\* ORDER BY zone_type, zone_low of get_zones_for_symbol
TypeRank(t) == IF t = "BEARISH" THEN 0 ELSE 1

\* zone_type, zone_low and zone_high of the rows, zone_low <= zone_high in each
WideZones == {z \in ZoneTypes \X ZonePrices \X ZonePrices : z[2] <= z[3]}

NarrowZones == {<<t, m - 2, m + 2>> : t \in ZoneTypes, m \in NarrowZoneMids}

\* the results of a query over the given rows; id is the row's place in the
\* result
ZoneListsOf(rows) ==
    {[i \in 1..Len(s) |->
        [id |-> i, zone_type |-> s[i][1], zone_low |-> s[i][2], zone_high |-> s[i][3]]] :
     s \in {t \in UNION {[1..n -> rows] : n \in 0..MaxZones} :
              \A i \in 1..(Len(t) - 1) :
                  \/ TypeRank(t[i][1]) < TypeRank(t[i + 1][1])
                  \/ t[i][1] = t[i + 1][1] /\ t[i][2] <= t[i + 1][2]}}

ZoneLists == ZoneListsOf(WideZones) \cup ZoneListsOf(NarrowZones)

InitProximity ==
    /\ ltp \in Prices
    /\ zones \in ZoneLists
    /\ prox_ret = None
    /\ IdleCalendar
    /\ IdleAlerts
    /\ IdleDetector
    /\ IdleStore
    /\ IdleMonitor

CalculateProximity ==
    /\ prox_ret = None
    /\ prox_ret' = _calculate_proximity(ltp, zones)
    /\ UNCHANGED <<ltp, zones, calVars, alertVars, detVars, storeVars, monVars>>

NextProximity == CalculateProximity

SpecProximity == InitProximity /\ [][NextProximity]_vars

(***************************************************************************)
(* Proximity properties                                                    *)
(***************************************************************************)
Called == prox_ret # None

Containing == {i \in 1..Len(zones) : zones[i].zone_low <= ltp /\ ltp <= zones[i].zone_high}

FirstContaining == CHOOSE i \in Containing : \A j \in Containing : i <= j

\* |ltp - mid| / mid as a percentage, against a bound p / q
AbsPercentWithin(z, p, q) ==
    Abs(2 * ltp - (z.zone_low + z.zone_high)) * 100 * q <= p * (z.zone_low + z.zone_high)

\* C6: when some zone contains ltp, the result is the first containing zone's
\* INSIDE status (by its zone_type), reaction "Holding", that zone and its
\* signed distance, whatever else the list holds.
C6_FirstContainingZoneWins ==
    (Called /\ Containing # {}) =>
        LET z == zones[FirstContaining]
        IN  /\ prox_ret[1] = (IF z.zone_type = "BULLISH" THEN "INSIDE_BULLISH" ELSE "INSIDE_BEARISH")
            /\ prox_ret[2] = z
            /\ prox_ret[3] = <<100 * (2 * ltp - (z.zone_low + z.zone_high)), z.zone_low + z.zone_high>>
            /\ prox_ret[4] = "Holding"

\* the first containing zone comes after a zone that does not contain ltp
\* and before a zone that does not contain it either and whose midpoint is
\* closer
C6_Witness ==
    /\ Called
    /\ Len(zones) = 3
    /\ Containing = {2}
    /\ RatLt(<<Abs(2 * ltp - (zones[3].zone_low + zones[3].zone_high)), zones[3].zone_low + zones[3].zone_high>>,
             <<Abs(2 * ltp - (zones[2].zone_low + zones[2].zone_high)), zones[2].zone_low + zones[2].zone_high>>)
    /\ prox_ret[2] = zones[2]
    /\ prox_ret[4] = "Holding"

\* C7: with the default near threshold of 0.5%, an ltp inside no zone and at
\* most 0.5% from the closest zone midpoint is classified NEAR / First Touch.
C7_NearWithinHalfPercent ==
    (Called /\ zones # <<>> /\ Containing = {}
        /\ \E i \in 1..Len(zones) : AbsPercentWithin(zones[i], 1, 2)) =>
        (prox_ret[1] = "NEAR" /\ prox_ret[4] = "First Touch")

\* C8: an ltp inside no zone and more than 1.5% from every zone midpoint is
\* classified FAR / No Touch Yet.
C8_FarBeyondOneAndAHalfPercent ==
    (Called /\ zones # <<>> /\ Containing = {}
        /\ \A i \in 1..Len(zones) : ~AbsPercentWithin(zones[i], 3, 2)) =>
        (prox_ret[1] = "FAR" /\ prox_ret[4] = "No Touch Yet")

C8_Witness ==
    /\ Called
    /\ Len(zones) >= 2
    /\ Containing = {}
    /\ \A i \in 1..Len(zones) : ~AbsPercentWithin(zones[i], 3, 2)
    /\ prox_ret[1] = "FAR"

(***************************************************************************)
(* C21: for every price, the classification of an empty zone list is       *)
(* exactly (FAR, no closest zone, 100.0, "No Touch Yet").                  *)
(***************************************************************************)
C21_EmptyZoneListIsFarAtHundred ==
    (Called /\ zones = <<>>) =>
        prox_ret = <<"FAR", None, <<100, 1>>, "No Touch Yet">>

C21_Witness ==
    /\ Called
    /\ zones = <<>>
    /\ ltp = 71000
    /\ prox_ret[3] = <<100, 1>>

\* |ltp - mid| / mid * 100 for a zone, as an exact rational
AbsPercent(z) == <<100 * Abs(2 * ltp - (z.zone_low + z.zone_high)), z.zone_low + z.zone_high>>

RatEq(x, y) == RatLeq(x, y) /\ RatLeq(y, x)

\* the first zone, in list order, at the least absolute percentage distance
Closest ==
    CHOOSE i \in 1..Len(zones) :
        /\ \A j \in 1..Len(zones) : RatLeq(AbsPercent(zones[i]), AbsPercent(zones[j]))
        /\ \A j \in 1..(i - 1) : RatLt(AbsPercent(zones[i]), AbsPercent(zones[j]))

C26_FirstClosestZoneAndItsDistance ==
    (Called /\ zones # <<>> /\ Containing = {}) =>
        LET z == zones[Closest]
            d == AbsPercent(z)
        IN  /\ prox_ret[2] = z
            /\ prox_ret[3] = <<100 * (2 * ltp - (z.zone_low + z.zone_high)),
                               z.zone_low + z.zone_high>>
            /\ <<prox_ret[1], prox_ret[4]>> =
                   IF RatLeq(d, <<1, 200>>) THEN <<"NEAR", "First Touch">>
                   ELSE IF RatLt(<<3, 2>>, d) THEN <<"FAR", "No Touch Yet">>
                   ELSE <<"NEAR", "No Touch Yet">>

\* the second zone is as far above the price as the first is below it
C26_Witness ==
    /\ Called
    /\ ltp = 69993
    /\ Len(zones) = 2
    /\ Containing = {}
    /\ zones[1].zone_high < ltp /\ ltp < zones[2].zone_low
    /\ RatEq(AbsPercent(zones[1]), AbsPercent(zones[2]))
    /\ prox_ret[2] = zones[1]
    /\ prox_ret[3][1] > 0

(***************************************************************************)
(* Alert specification: get_alerts on each list of monitoring records.     *)
(***************************************************************************)
MaxRecords == 2

Statuses == {"INSIDE_BULLISH", "INSIDE_BEARISH", "NEAR", "FAR"}
Reactions == {"No Touch Yet", "First Touch", "Holding", "Rejected", "Broken"}

MonitoringRecords == [symbol : {"RELIANCE"}, status : Statuses, reaction : Reactions]

InitAlerts ==
    /\ monitoring_data \in UNION {[1..n -> MonitoringRecords] : n \in 0..MaxRecords}
    /\ alerts = None
    /\ IdleCalendar
    /\ IdleProximity
    /\ IdleDetector
    /\ IdleStore
    /\ IdleMonitor

\* alerts = monitor.get_alerts(monitoring_data); the list passed in is only read
GetAlerts ==
    /\ alerts = None
    /\ alerts' = <<get_alerts(monitoring_data)>>
    /\ UNCHANGED <<monitoring_data, calVars, proxVars, detVars, storeVars, monVars>>

NextAlerts == GetAlerts

SpecAlerts == InitAlerts /\ [][NextAlerts]_vars

(***************************************************************************)
(* Alert properties                                                        *)
(***************************************************************************)
Alerting(r) ==
    /\ r.status \in {"INSIDE_BULLISH", "INSIDE_BEARISH", "NEAR"}
    /\ r.reaction \in {"First Touch", "Holding"}

\* C9: get_alerts returns exactly the records with status INSIDE_BULLISH,
\* INSIDE_BEARISH or NEAR and reaction First Touch or Holding, in input order;
\* no FAR record and no "No Touch Yet" record is returned, and the list
\* passed in is not modified.
C9_AlertsAreTheQualifyingRecordsInOrder ==
    [][alerts' # alerts =>
        /\ alerts'[1] = SelectSeq(monitoring_data, Alerting)
        /\ \A i \in 1..Len(alerts'[1]) :
               alerts'[1][i].status # "FAR" /\ alerts'[1][i].reaction # "No Touch Yet"
        /\ monitoring_data' = monitoring_data]_vars

\* a NEAR / No Touch Yet record is dropped and a later qualifying one kept
C9_Witness ==
    /\ alerts # None
    /\ Len(monitoring_data) = 2
    /\ monitoring_data[1].status = "NEAR" /\ monitoring_data[1].reaction = "No Touch Yet"
    /\ alerts[1] = <<monitoring_data[2]>>

(***************************************************************************)
(* Monitoring-record specification: one pass of the Step 4 loop of         *)
(* get_monitoring_data for a symbol with a price (classification, then the *)
(* record appended to monitoring_data), and get_alerts on the list built.  *)
(* The request's dates are not part of this specification.                 *)
(***************************************************************************)
\* the dictionary appended to monitoring_data
MonitoringRecord(symbol, price, zone_list, ret, fetch_day, execute_day) ==
    [symbol           |-> symbol,
     ltp              |-> price,
     zones            |-> zone_list,
     status           |-> ret[1],
     closest_zone     |-> ret[2],
     distance_percent |-> ret[3],
     reaction         |-> ret[4],
     fetch_date       |-> fetch_day,
     execute_date     |-> execute_day]

AppendMonitoringRecord ==
    /\ prox_ret # None
    /\ monitoring_data = <<>>
    /\ monitoring_data' =
           Append(monitoring_data,
                  MonitoringRecord("RELIANCE", ltp, zones, prox_ret, None, None))
    /\ UNCHANGED <<alerts, calVars, proxVars, detVars, storeVars, monVars>>

NextRecord == CalculateProximity \/ AppendMonitoringRecord \/ GetAlerts

SpecRecord == InitProximity /\ [][NextRecord]_vars

(***************************************************************************)
(* Monitoring-record properties                                            *)
(***************************************************************************)
\* C22: for every price and every zone list the classification never
\* returns reaction "Rejected" or "Broken", and no record of the monitoring
\* data carries either reaction.
C22_NeverRejectedNorBroken ==
    /\ Called => prox_ret[4] \notin {"Rejected", "Broken"}
    /\ \A i \in 1..Len(monitoring_data) :
           monitoring_data[i].reaction \notin {"Rejected", "Broken"}

C22_Witness ==
    /\ Len(monitoring_data) = 1
    /\ Len(zones) = MaxZones
    /\ Containing = {}
    /\ monitoring_data[1].status = "FAR"
    /\ monitoring_data[1].reaction = prox_ret[4]

\* the (status, reaction) pairs of the classification
ClassificationPairs ==
    {<<"INSIDE_BULLISH", "Holding">>, <<"INSIDE_BEARISH", "Holding">>,
     <<"NEAR", "First Touch">>, <<"NEAR", "No Touch Yet">>, <<"FAR", "No Touch Yet">>}

\* C29: for every price and every zone list, the (status, reaction) pair of
\* the classification is one of (INSIDE_BULLISH, Holding), (INSIDE_BEARISH,
\* Holding), (NEAR, First Touch), (NEAR, No Touch Yet), (FAR, No Touch Yet),
\* and closest_zone is null exactly when the zone list is empty; get_alerts
\* on the record built from it returns no FAR record and every INSIDE
\* record.
C29_ClassificationPairsAgreeWithTheAlertFilter ==
    /\ [](Called =>
             /\ <<prox_ret[1], prox_ret[4]>> \in ClassificationPairs
             /\ (prox_ret[2] = None) <=> (zones = <<>>))
    /\ [][(alerts' # alerts /\ monitoring_data # <<>>) =>
             LET r == monitoring_data[1]
             IN  /\ <<r.status, r.reaction>> = <<prox_ret[1], prox_ret[4]>>
                 /\ r.status = "FAR" => alerts'[1] = <<>>
                 /\ r.status \in {"INSIDE_BULLISH", "INSIDE_BEARISH"} => alerts'[1] = <<r>>]_vars

\* the record of a price inside a zone that is not the first of the list is
\* an alert
C29_Witness ==
    /\ Called
    /\ Len(zones) = MaxZones
    /\ Containing # {}
    /\ 1 \notin Containing
    /\ monitoring_data # <<>>
    /\ monitoring_data[1].status = prox_ret[1]
    /\ alerts # None
    /\ alerts[1] = monitoring_data

(***************************************************************************)
(* ZoneDetector.  A candle series is a sequence of records [date, open,    *)
(* high, low, close]; the code's 0-based position i is df[i + 1].  Means   *)
(* and products by 1.5, 0.3, 2.5 and 0.5 are exact.                        *)
(***************************************************************************)
\* config.Config.ATR_MULTIPLIER = 1.5, ZONE_CANDLES_MIN = 2, ZONE_CANDLES_MAX = 6,
\* TIMEFRAME = '15minute'
ATR_MULTIPLIER == <<3, 2>>
ZONE_CANDLES_MIN == 2
ZONE_CANDLES_MAX == 6
TIMEFRAME == "15minute"

\* the detector FetchDayProcessor constructs
atr_multiplier == ATR_MULTIPLIER
zone_candles_min == ZONE_CANDLES_MIN
zone_candles_max == ZONE_CANDLES_MAX

Row(d, i) == d[i + 1]

Min2(a, b) == IF a <= b THEN a ELSE b
Max2(a, b) == IF a >= b THEN a ELSE b
MinOf(S) == CHOOSE x \in S : \A y \in S : x <= y
MaxOf(S) == CHOOSE x \in S : \A y \in S : x >= y

RECURSIVE Sum(_)
Sum(seq) == IF seq = <<>> THEN 0 ELSE Head(seq) + Sum(Tail(seq))

\* max of high - low, |high - previous close|, |low - previous close|; the
\* first row has no previous close and keeps high - low
TrueRange(d) ==
    [k \in 1..Len(d) |->
        IF k = 1 THEN d[k].high - d[k].low
        ELSE Max2(d[k].high - d[k].low,
                  Max2(Abs(d[k].high - d[k - 1].close), Abs(d[k].low - d[k - 1].close)))]

AtrPeriod == 14

\* the mean of the last 14 true ranges; with fewer than 14 rows the rolling
\* mean is NaN and the result is mean(high) - mean(low).  Defined for a
\* non-empty series.
calculate_atr(d) ==
    IF Len(d) >= AtrPeriod
    THEN <<Sum(SubSeq(TrueRange(d), Len(d) - AtrPeriod + 1, Len(d))), AtrPeriod>>
    ELSE <<Sum([k \in 1..Len(d) |-> d[k].high]) - Sum([k \in 1..Len(d) |-> d[k].low]), Len(d)>>

MinImpulseCandles == 3
MaxImpulseCandles == 20

\* the loop body with the pullback limit at 0.5 of the move
ImpulseCandidate_pullback_half(d, atr, i, j) ==
    LET price_start == Row(d, i).close
        price_end == Row(d, j).close
        net_move == Abs(price_end - price_start)
    IN  IF net_move * atr_multiplier[2] * atr[2] < atr_multiplier[1] * atr[1] THEN "skip"
        ELSE IF price_end > price_start
             THEN LET pullback == price_start - MinOf({Row(d, k).low : k \in i..j})
                  IN  IF 2 * pullback > net_move THEN "skip" ELSE "BULLISH"
             ELSE LET pullback == MaxOf({Row(d, k).high : k \in i..j}) - price_start
                  IN  IF 2 * pullback > net_move THEN "skip" ELSE "BEARISH"

\* one (i, j) of the scan: "skip" when a continue is taken, the direction
\* otherwise
ImpulseCandidate(d, atr, i, j) ==
    LET price_start == Row(d, i).close
        price_end == Row(d, j).close
        net_move == Abs(price_end - price_start)
    IN  IF net_move * atr_multiplier[2] * atr[2] < atr_multiplier[1] * atr[1] THEN "skip"
        ELSE IF price_end > price_start
             THEN LET lowest_in_range == MinOf({Row(d, k).low : k \in i..j})
                      pullback == price_start - lowest_in_range
                  IN  IF 10 * pullback > 3 * net_move THEN "skip" ELSE "BULLISH"
             ELSE LET highest_in_range == MaxOf({Row(d, k).high : k \in i..j})
                      pullback == highest_in_range - price_start
                  IN  IF 10 * pullback > 3 * net_move THEN "skip" ELSE "BEARISH"

\* the inner loop tracking with >= in place of >: the last of tied candidates
\* is kept
RECURSIVE ImpulseInner_last_tie_wins(_, _, _, _, _)
ImpulseInner_last_tie_wins(d, atr, i, j, best) ==
    IF j >= Min2(i + MaxImpulseCandles, Len(d)) THEN best
    ELSE LET direction == ImpulseCandidate(d, atr, i, j)
             net_move == Abs(Row(d, j).close - Row(d, i).close)
         IN  IF net_move >= best.max_move /\ net_move > 0 /\ direction # "skip"
             THEN ImpulseInner_last_tie_wins(d, atr, i, j + 1,
                      [max_move |-> net_move,
                       best_impulse |->
                           [direction |-> direction, start_idx |-> i, end_idx |-> j,
                            strength |-> IF net_move * atr[2] > 2 * atr[1] THEN "HIGH" ELSE "MEDIUM",
                            start_time |-> Row(d, i).date, end_time |-> Row(d, j).date]])
             ELSE ImpulseInner_last_tie_wins(d, atr, i, j + 1, best)

\* the inner loop: j from its current value to min(i + 20, len(df)) - 1
RECURSIVE ImpulseInner(_, _, _, _, _)
ImpulseInner(d, atr, i, j, best) ==
    IF j >= Min2(i + MaxImpulseCandles, Len(d)) THEN best
    ELSE LET direction == ImpulseCandidate(d, atr, i, j)
             net_move == Abs(Row(d, j).close - Row(d, i).close)
         IN  IF net_move > best.max_move /\ direction # "skip"
             THEN ImpulseInner(d, atr, i, j + 1,
                      [max_move |-> net_move,
                       best_impulse |->
                           [direction |-> direction, start_idx |-> i, end_idx |-> j,
                            strength |-> IF net_move * atr[2] > 2 * atr[1] THEN "HIGH" ELSE "MEDIUM",
                            start_time |-> Row(d, i).date, end_time |-> Row(d, j).date]])
             ELSE ImpulseInner(d, atr, i, j + 1, best)

\* the outer loop: i from its current value to len(df) - 4
RECURSIVE ImpulseOuter(_, _, _, _)
ImpulseOuter(d, atr, i, best) ==
    IF i >= Len(d) - MinImpulseCandles THEN best.best_impulse
    ELSE ImpulseOuter(d, atr, i + 1, ImpulseInner(d, atr, i, i + MinImpulseCandles, best))

find_major_impulse(d, atr) ==
    ImpulseOuter(d, atr, 0, [max_move |-> 0, best_impulse |-> None])

\* the loop over lookback stopping one short of zone_candles_max
RECURSIVE OriginLoop_max_exclusive(_, _, _)
OriginLoop_max_exclusive(d, impulse_start_idx, lookback) ==
    IF lookback >= Min2(zone_candles_max, impulse_start_idx + 1) THEN None
    ELSE LET zone_candles == SubSeq(d, impulse_start_idx - lookback + 1, impulse_start_idx)
             zone_low == MinOf({zone_candles[k].low : k \in 1..lookback})
             zone_high == MaxOf({zone_candles[k].high : k \in 1..lookback})
             zone_range == zone_high - zone_low
             range_sum == Sum([k \in 1..lookback |-> zone_candles[k].high - zone_candles[k].low])
             net_progress == Abs(zone_candles[lookback].close - zone_candles[1].close)
         IN  IF /\ 2 * lookback * zone_range < 5 * range_sum
                /\ 2 * net_progress < zone_range
             THEN [zone_low |-> zone_low, zone_high |-> zone_high, candle_count |-> lookback]
             ELSE OriginLoop_max_exclusive(d, impulse_start_idx, lookback + 1)

\* the loop over lookback
RECURSIVE OriginLoop(_, _, _)
OriginLoop(d, impulse_start_idx, lookback) ==
    IF lookback >= Min2(zone_candles_max + 1, impulse_start_idx + 1) THEN None
    ELSE LET zone_start == impulse_start_idx - lookback
             zone_end == impulse_start_idx
             \* df.iloc[zone_start:zone_end]
             zone_candles == SubSeq(d, zone_start + 1, zone_end)
             zone_low == MinOf({zone_candles[k].low : k \in 1..lookback})
             zone_high == MaxOf({zone_candles[k].high : k \in 1..lookback})
             zone_range == zone_high - zone_low
             \* avg_candle_range = range_sum / lookback
             range_sum == Sum([k \in 1..lookback |-> zone_candles[k].high - zone_candles[k].low])
             net_progress == Abs(zone_candles[lookback].close - zone_candles[1].close)
         IN  IF /\ 2 * lookback * zone_range < 5 * range_sum
                /\ 2 * net_progress < zone_range
             THEN [zone_low |-> zone_low, zone_high |-> zone_high, candle_count |-> lookback]
             ELSE OriginLoop(d, impulse_start_idx, lookback + 1)

find_origin_zone(d, impulse_start_idx) ==
    IF impulse_start_idx < zone_candles_min THEN None
    ELSE OriginLoop(d, impulse_start_idx, zone_candles_min)

validate_zone(d, zone, impulse) ==
    IF impulse.end_idx >= Len(d) THEN FALSE
    ELSE LET price_after_impulse == Row(d, impulse.end_idx).close
             zone_range == zone.zone_high - zone.zone_low
         \* distance = |price - (zone_low + zone_high) / 2| < zone_range * 2
         IN  IF Abs(2 * price_after_impulse - (zone.zone_low + zone.zone_high)) < 4 * zone_range
             THEN FALSE
             ELSE TRUE

MinCandles == 20

\* extract_zones with the length test one candle short
extract_zones_short_minimum(d, symbol, fetch_date, timeframe) ==
    IF Len(d) < MinCandles - 1 THEN <<>>
    ELSE LET found_impulse == find_major_impulse(d, calculate_atr(d))
         IN  IF found_impulse = None THEN <<>>
             ELSE LET origin_zone == find_origin_zone(d, found_impulse.start_idx)
                  IN  IF origin_zone = None THEN <<>>
                      ELSE IF ~validate_zone(d, origin_zone, found_impulse) THEN <<>>
                      ELSE << [symbol |-> symbol,
                               fetch_date |-> fetch_date,
                               timeframe |-> timeframe,
                               zone_type |-> found_impulse.direction,
                               zone_low |-> origin_zone.zone_low,
                               zone_high |-> origin_zone.zone_high,
                               impulse_strength |-> found_impulse.strength,
                               impulse_start_time |-> found_impulse.start_time,
                               impulse_end_time |-> found_impulse.end_time] >>

\* found_atr and found_impulse are the code's locals atr and impulse
extract_zones(d, symbol, fetch_date, timeframe) ==
    IF Len(d) < MinCandles THEN <<>>
    ELSE LET found_atr == calculate_atr(d)
             found_impulse == find_major_impulse(d, found_atr)
         IN  IF found_impulse = None THEN <<>>
             ELSE LET origin_zone == find_origin_zone(d, found_impulse.start_idx)
                  IN  IF origin_zone = None THEN <<>>
                      ELSE IF ~validate_zone(d, origin_zone, found_impulse) THEN <<>>
                      ELSE << [symbol |-> symbol,
                               fetch_date |-> fetch_date,
                               timeframe |-> timeframe,
                               zone_type |-> found_impulse.direction,
                               zone_low |-> origin_zone.zone_low,
                               zone_high |-> origin_zone.zone_high,
                               impulse_strength |-> found_impulse.strength,
                               impulse_start_time |-> found_impulse.start_time,
                               impulse_end_time |-> found_impulse.end_time] >>

\* the detector methods extract_zones calls on d, in order
extract_zones_calls(d) ==
    IF Len(d) < MinCandles THEN <<>>
    ELSE LET found_impulse == find_major_impulse(d, calculate_atr(d))
         IN  IF found_impulse = None THEN <<"calculate_atr", "find_major_impulse">>
             ELSE IF find_origin_zone(d, found_impulse.start_idx) = None
                  THEN <<"calculate_atr", "find_major_impulse", "find_origin_zone">>
                  ELSE <<"calculate_atr", "find_major_impulse", "find_origin_zone",
                         "validate_zone">>

(***************************************************************************)
(* Detector specification: one ZoneDetector call on a candle series.       *)
(* CandleSeries is a family of sessions: a drift of Drift per candle up to *)
(* position Start, then Steps candles of Step each, then a flat close;     *)
(* every candle opens at the previous close and has wicks of Wick on both  *)
(* sides.  OriginSeries is every series of OriginLen candles closing at    *)
(* one of two prices.  SpikeSeries is a family of 20-candle sessions with  *)
(* a dip and a sharp move.                                                 *)
(***************************************************************************)
BasePrice == 1000

CloseAt(i, start, steps, step, drift) ==
    IF i <= start THEN BasePrice - drift * (start - i)
    ELSE IF i <= start + steps THEN BasePrice + step * (i - start)
    ELSE BasePrice + step * steps

Candles(closes, wick) ==
    [k \in 1..Len(closes) |->
        LET c == closes[k]
            o == IF k = 1 THEN c ELSE closes[k - 1]
        IN  [date |-> k - 1, open |-> o, high |-> Max2(o, c) + wick,
             low |-> Min2(o, c) - wick, close |-> c]]

CandleSeries ==
    {Candles([k \in 1..n |-> CloseAt(k - 1, p[1], p[2], p[3], p[4])], p[5]) :
     n \in {0, 19, 20, 24},
     p \in {1, 2, 4} \X {3, 4, 21} \X {-5, -1, 0, 1, 5} \X {-2, 0, 2} \X {0, 1}}

OriginLen == 8

OriginSeries ==
    {Candles(c, w) : c \in [1..OriginLen -> {BasePrice, BasePrice + 10}], w \in {0, 1}}

\* a flat close, then within three candles a dip and a move of twice Up the
\* other way, then a fall back of Back
SpikeAt(i, start, dip, up, back) ==
    IF i <= start THEN BasePrice
    ELSE IF i <= start + 3 THEN BasePrice - dip + up * (i - start - 1)
    ELSE BasePrice - dip + 2 * up - back

SpikeSeries ==
    {Candles([k \in 1..20 |-> SpikeAt(k - 1, p[1], p[2], p[3], p[4])], p[5]) :
     p \in {3, 5} \X {-10, 0, 10} \X {-20, 20} \X {-15, -5, 0, 5, 15} \X {0, 1}}

InitDetector ==
    /\ df \in CandleSeries \cup OriginSeries \cup SpikeSeries
    /\ det_op = "init"
    /\ det_idx = 0
    /\ det_ret = None
    /\ det_calls = <<>>
    /\ IdleCalendar
    /\ IdleProximity
    /\ IdleAlerts
    /\ IdleStore
    /\ IdleMonitor

\* zones = self.detector.extract_zones(df, symbol, fetch_date, timeframe)
ExtractZones ==
    /\ det_op = "init"
    /\ det_op' = "extract_zones"
    /\ det_ret' = <<extract_zones(df, "RELIANCE", <<2026, 1, 28>>, TIMEFRAME)>>
    /\ det_calls' = extract_zones_calls(df)
    /\ UNCHANGED <<df, det_idx, calVars, proxVars, alertVars, storeVars, monVars>>

\* impulse = self.find_major_impulse(df, atr) with atr = self.calculate_atr(df)
FindMajorImpulse ==
    /\ det_op = "init"
    /\ df # <<>>
    /\ det_op' = "find_major_impulse"
    /\ det_ret' = <<find_major_impulse(df, calculate_atr(df))>>
    /\ UNCHANGED <<df, det_idx, det_calls, calVars, proxVars, alertVars, storeVars, monVars>>

\* origin_zone = self.find_origin_zone(df, impulse_start_idx)
FindOriginZone ==
    /\ det_op = "init"
    /\ \E impulse_start_idx \in 0..Min2(Len(df), OriginLen) :
           /\ det_idx' = impulse_start_idx
           /\ det_ret' = <<find_origin_zone(df, impulse_start_idx)>>
    /\ det_op' = "find_origin_zone"
    /\ UNCHANGED <<df, det_calls, calVars, proxVars, alertVars, storeVars, monVars>>

NextDetector == ExtractZones \/ FindMajorImpulse \/ FindOriginZone

SpecDetector == InitDetector /\ [][NextDetector]_vars

(***************************************************************************)
(* Detector properties                                                     *)
(***************************************************************************)
\* C11: on a candle series with fewer than 20 candles, the empty series
\* included, extract_zones returns the empty list and calls none of
\* calculate_atr, find_major_impulse, find_origin_zone, validate_zone.
C11_FewerThanTwentyCandlesGiveNothing ==
    det_op = "extract_zones" /\ Len(df) < 20 => det_ret = <<<<>>>> /\ det_calls = <<>>

\* 19 candles that hold an impulse with an origin zone still give nothing
C11_Witness ==
    /\ det_op = "extract_zones"
    /\ Len(df) = 19
    /\ find_major_impulse(df, calculate_atr(df)) # None
    /\ find_origin_zone(df, find_major_impulse(df, calculate_atr(df)).start_idx) # None
    /\ det_ret = <<<<>>>>

\* the index pairs (i, j) inside the series with 3 <= j - i < 20
ScanPairs(d) ==
    {p \in (0..Len(d) - 1) \X (0..Len(d) - 1) : p[2] - p[1] >= 3 /\ p[2] - p[1] < 20}

NetDisplacement(d, p) == Abs(Row(d, p[2]).close - Row(d, p[1]).close)

\* the pairs that pass the displacement and pullback filters
Survivors(d) == {p \in ScanPairs(d) : ImpulseCandidate(d, calculate_atr(d), p[1], p[2]) # "skip"}

ScanBefore(p, q) == p[1] < q[1] \/ (p[1] = q[1] /\ p[2] < q[2])

\* the pair of S with the largest displacement, the first in scan order of
\* those that tie
Dominant(d, S) ==
    CHOOSE p \in S : \A q \in S \ {p} :
        \/ NetDisplacement(d, p) > NetDisplacement(d, q)
        \/ NetDisplacement(d, p) = NetDisplacement(d, q) /\ ScanBefore(p, q)

ReturnedPair == <<det_ret[1].start_idx, det_ret[1].end_idx>>

\* C12 as stated: find_major_impulse returns none when no pair (i, j) with
\* 3 <= j - i < 20 survives the filters, and otherwise the survivor with the
\* largest net displacement, the first in scan order among ties.
C12_LargestSurvivorFirstInScanOrder ==
    det_op = "find_major_impulse" =>
        IF Survivors(df) = {} THEN det_ret[1] = None
        ELSE det_ret[1] # None /\ ReturnedPair = Dominant(df, Survivors(df))

\* C12 amended: as above among the survivors of positive net displacement; a
\* survivor whose closes are equal is never returned.
C12_LargestMovingSurvivorFirstInScanOrder ==
    det_op = "find_major_impulse" =>
        LET Moving == {p \in Survivors(df) : NetDisplacement(df, p) > 0}
        IN  IF Moving = {} THEN det_ret[1] = None
            ELSE det_ret[1] # None /\ ReturnedPair = Dominant(df, Moving)

\* the returned pair ties with a later survivor, and a pair 20 or more
\* candles apart moves further than it
C12_Witness ==
    /\ det_op = "find_major_impulse"
    /\ det_ret[1] # None
    /\ \E q \in Survivors(df) :
           /\ NetDisplacement(df, q) = NetDisplacement(df, ReturnedPair)
           /\ ScanBefore(ReturnedPair, q)
    /\ \E i \in 0..Len(df) - 1 : \E j \in 0..Len(df) - 1 :
           j - i >= 20 /\ NetDisplacement(df, <<i, j>>) > NetDisplacement(df, ReturnedPair)

\* the displacement filter in the claim's words: |close[j] - close[i]| is
\* below 1.5 x ATR
BelowAtrThreshold(d, p) ==
    LET atr == calculate_atr(d)
    IN  2 * NetDisplacement(d, p) * atr[2] < 3 * atr[1]

\* the pullback filter in the claim's words
TooMuchPullback(d, p) ==
    LET close_i == Row(d, p[1]).close
        close_j == Row(d, p[2]).close
    IN  \/ /\ close_j > close_i
           /\ 10 * (close_i - MinOf({Row(d, k).low : k \in p[1]..p[2]}))
                  > 3 * NetDisplacement(d, p)
        \/ /\ close_i > close_j
           /\ 10 * (MaxOf({Row(d, k).high : k \in p[1]..p[2]}) - close_i)
                  > 3 * NetDisplacement(d, p)

\* the pairs with different closes the two filters leave
Kept(d) ==
    {p \in ScanPairs(d) :
        /\ Row(d, p[1]).close # Row(d, p[2]).close
        /\ ~BelowAtrThreshold(d, p)
        /\ ~TooMuchPullback(d, p)}

\* C13: a pair is discarded when its net displacement is below 1.5 x ATR, a
\* bullish pair iff close[i] - min(low[i..j]) > 0.3 x displacement, a bearish
\* pair iff max(high[i..j]) - close[i] > 0.3 x displacement: the impulse
\* returned is the dominant pair of those the filters leave, and none is
\* returned when they leave none; its direction is BULLISH exactly when
\* close[end] > close[start] and BEARISH exactly when close[end] < close[start].
C13_FiltersAndDirection ==
    det_op = "find_major_impulse" =>
        IF Kept(df) = {} THEN det_ret[1] = None
        ELSE /\ det_ret[1] # None
             /\ ReturnedPair = Dominant(df, Kept(df))
             /\ det_ret[1].direction = "BULLISH"
                    <=> Row(df, det_ret[1].end_idx).close > Row(df, det_ret[1].start_idx).close
             /\ det_ret[1].direction = "BEARISH"
                    <=> Row(df, det_ret[1].end_idx).close < Row(df, det_ret[1].start_idx).close

\* a bullish impulse is returned although a pair that moves further passes
\* the displacement filter: that pair pulled back too far
C13_Witness ==
    /\ det_op = "find_major_impulse"
    /\ det_ret[1] # None
    /\ det_ret[1].direction = "BULLISH"
    /\ \E q \in ScanPairs(df) :
           /\ NetDisplacement(df, q) > NetDisplacement(df, ReturnedPair)
           /\ ~BelowAtrThreshold(df, q)
           /\ TooMuchPullback(df, q)

\* the size candles that end right before position idx
WindowBefore(d, idx, size) == SubSeq(d, idx - size + 1, idx)

WindowLow(w) == MinOf({w[k].low : k \in 1..Len(w)})
WindowHigh(w) == MaxOf({w[k].high : k \in 1..Len(w)})

\* range < 2.5 x mean candle range, and |last close - first close| < 0.5 x range
CompressedAndBalanced(w) ==
    /\ 2 * Len(w) * (WindowHigh(w) - WindowLow(w))
           < 5 * Sum([k \in 1..Len(w) |-> w[k].high - w[k].low])
    /\ 2 * Abs(w[Len(w)].close - w[1].close) < WindowHigh(w) - WindowLow(w)

\* the window sizes from 2 to 6 that fit before idx and qualify
QualifyingSizes(d, idx) ==
    {size \in 2..6 : size <= idx /\ CompressedAndBalanced(WindowBefore(d, idx, size))}

\* C14: find_origin_zone returns the lowest low and highest high of the
\* smallest backward window of 2 to 6 candles that is compressed and
\* balanced, and none when no such window qualifies or when the impulse start
\* index is smaller than 2.
C14_SmallestQualifyingWindow ==
    det_op = "find_origin_zone" =>
        IF det_idx < 2 \/ QualifyingSizes(df, det_idx) = {} THEN det_ret[1] = None
        ELSE LET smallest == MinOf(QualifyingSizes(df, det_idx))
                 w == WindowBefore(df, det_idx, smallest)
             IN  /\ det_ret[1] # None
                 /\ det_ret[1].zone_low = WindowLow(w)
                 /\ det_ret[1].zone_high = WindowHigh(w)
                 /\ det_ret[1].candle_count = smallest

\* the window of 6 candles is the first to qualify, with 8 candles before
\* the impulse start
C14_Witness ==
    /\ det_op = "find_origin_zone"
    /\ det_idx = 8
    /\ det_ret[1] # None
    /\ det_ret[1].candle_count = 6

\* C15: extract_zones emits a zone only if the candle right after the impulse
\* end (index end_idx + 1) exists and closes at least 2 x (zone_high - zone_low)
\* away from the zone's midpoint.
C15_FollowingCandleLeftTheZone ==
    det_op = "extract_zones" /\ det_ret[1] # <<>> =>
        LET zone == det_ret[1][1]
            following == zone.impulse_end_time + 1
        IN  /\ following < Len(df)
            /\ Abs(2 * Row(df, following).close - (zone.zone_low + zone.zone_high))
                   >= 4 * (zone.zone_high - zone.zone_low)

(***************************************************************************)
(* DatabaseManager.  The zones table is the sequence of its rows in        *)
(* insertion order; a row carries the nine columns the code writes.  The   *)
(* table's uniqueness constraint is declared in database/schema.sql.       *)
(***************************************************************************)
\* the columns of the zones table's UNIQUE constraint
IdentityKey(z) ==
    <<z.symbol, z.fetch_date, z.timeframe, z.zone_type, z.zone_low, z.zone_high>>

Keys(table) == {IdentityKey(table[i]) : i \in 1..Len(table)}

\* zone_data.get(key, default)
Get(zone_data, key, default) ==
    IF key \in DOMAIN zone_data THEN zone_data[key] ELSE default

\* the VALUES tuple of the INSERT statements
ZoneRow(zone_data, default_strength) ==
    [symbol |-> zone_data.symbol,
     fetch_date |-> zone_data.fetch_date,
     timeframe |-> zone_data.timeframe,
     zone_type |-> zone_data.zone_type,
     zone_low |-> zone_data.zone_low,
     zone_high |-> zone_data.zone_high,
     impulse_strength |-> Get(zone_data, "impulse_strength", default_strength),
     impulse_start_time |-> Get(zone_data, "impulse_start_time", None),
     impulse_end_time |-> Get(zone_data, "impulse_end_time", None)]

\* a plain INSERT in place of INSERT OR IGNORE on a table without the
\* constraint
save_zone_always_inserts(table, zone_data) ==
    [table |-> Append(table, ZoneRow(zone_data, "MEDIUM")), ret |-> TRUE]

\* INSERT OR REPLACE in place of INSERT OR IGNORE
save_zone_replaces(table, zone_data) ==
    [table |-> Append(SelectSeq(table, LAMBDA r : IdentityKey(r) # IdentityKey(zone_data)),
                      ZoneRow(zone_data, "MEDIUM")),
     ret |-> TRUE]

\* INSERT OR IGNORE: the table after the call and cursor.rowcount > 0
save_zone(table, zone_data) ==
    IF IdentityKey(zone_data) \in Keys(table)
    THEN [table |-> table, ret |-> FALSE]
    ELSE [table |-> Append(table, ZoneRow(zone_data, "MEDIUM")), ret |-> TRUE]

\* ORDER BY zone_type, zone_low: r sorts before e
SortsBefore(r, e) ==
    \/ TypeRank(r.zone_type) < TypeRank(e.zone_type)
    \/ r.zone_type = e.zone_type /\ r.zone_low < e.zone_low

RECURSIVE InsertOrdered(_, _)
InsertOrdered(sorted, r) ==
    IF sorted = <<>> THEN <<r>>
    ELSE IF SortsBefore(r, Head(sorted)) THEN <<r>> \o sorted
    ELSE <<Head(sorted)>> \o InsertOrdered(Tail(sorted), r)

RECURSIVE OrderBy(_)
OrderBy(rows) ==
    IF rows = <<>> THEN <<>>
    ELSE InsertOrdered(OrderBy(SubSeq(rows, 1, Len(rows) - 1)), rows[Len(rows)])

\* SELECT * FROM zones WHERE symbol = ? AND fetch_date = ? ORDER BY zone_type, zone_low
get_zones_for_symbol(table, symbol, fetch_date) ==
    OrderBy(SelectSeq(table, LAMBDA r : r.symbol = symbol /\ r.fetch_date = fetch_date))

\* update_zone inserting without the DELETE
update_zone_merges(table, symbol, fetch_date, zone_data, insert_fails) ==
    IF insert_fails \/ IdentityKey(zone_data) \in Keys(table)
    THEN [table |-> table, ret |-> FALSE]
    ELSE [table |-> Append(table, ZoneRow(zone_data, "MANUAL")), ret |-> TRUE]

\* DELETE the pair's rows, INSERT the new row and commit; when the INSERT
\* raises (insert_fails: the database reports an error; or the row's key is
\* already in the table) the transaction is rolled back
update_zone(table, symbol, fetch_date, zone_data, insert_fails) ==
    LET remaining == SelectSeq(table, LAMBDA r : ~(r.symbol = symbol /\ r.fetch_date = fetch_date))
    IN  IF insert_fails \/ IdentityKey(zone_data) \in Keys(remaining)
        THEN [table |-> table, ret |-> FALSE]
        ELSE [table |-> Append(remaining, ZoneRow(zone_data, "MANUAL")), ret |-> TRUE]

\* for zone in zones: success = self.db.save_zone(zone)
RECURSIVE SaveLoop(_, _, _)
SaveLoop(table, zone_list, success) ==
    IF zone_list = <<>> THEN [table |-> table, success |-> success]
    ELSE LET saved == save_zone(table, Head(zone_list))
         IN  SaveLoop(saved.table, Tail(zone_list), success \o <<saved.ret>>)

(***************************************************************************)
(* Store specification: two callers of the web application, each making    *)
(* one call after another on the zones of one Fetch Day:                   *)
(*   get_monitoring_data  (read the stored zones; generate them if none)   *)
(*   process_fetch_day    (extract the zones and save them)                *)
(*   update_zone          (the manual override)                            *)
(* Every database call is one transaction and one step.  A call ends at    *)
(* "done" with its arguments and locals in place, and then returns.        *)
(***************************************************************************)
Callers == {1, 2}
Symbols == {"RELIANCE", "TCS"}
FetchDate == <<2026, 1, 28>>

\* a session whose extraction gives the BEARISH zone [993, 999]
ZoneSeries == Candles([k \in 1..20 |-> CloseAt(k - 1, 4, 4, -5, 2)], 1)

\* RELIANCE has that session; TCS has it too, or has no data
MarketData == {[s \in Symbols |-> IF s = "RELIANCE" THEN ZoneSeries ELSE d] : d \in {ZoneSeries, <<>>}}

\* the zone_data the update route builds from a request: the extracted
\* zone's own key, a band given upside down, and a band of another key
ManualZones ==
    {[symbol |-> "RELIANCE", fetch_date |-> FetchDate, timeframe |-> TIMEFRAME,
      zone_type |-> z[1], zone_low |-> z[2], zone_high |-> z[3], impulse_strength |-> "MANUAL"] :
     z \in {<<"BEARISH", 993, 999>>, <<"BULLISH", 999, 993>>, <<"BULLISH", 990, 995>>}}

NoLocals == [existing_zones |-> None, zones |-> None, success |-> None]

InitStore ==
    /\ candles \in MarketData
    /\ store = <<>>
    /\ pc = [p \in Callers |-> "idle"]
    /\ req = [p \in Callers |-> None]
    /\ local = [p \in Callers |-> NoLocals]
    /\ IdleCalendar
    /\ IdleProximity
    /\ IdleAlerts
    /\ IdleDetector
    /\ IdleMonitor

\* get_monitoring_data(execute_day, [symbol]) is called: Fetch Day validated
GetMonitoringData(p) ==
    /\ pc[p] = "idle"
    /\ \E symbol \in Symbols :
           req' = [req EXCEPT ![p] = [call |-> "get_monitoring_data", symbol |-> symbol]]
    /\ pc' = [pc EXCEPT ![p] = "read"]
    /\ UNCHANGED <<candles, store, local, calVars, proxVars, alertVars, detVars, monVars>>

\* the read of get_monitoring_data going on to process_fetch_day whatever
\* it read
ReadExisting_always_generates(p) ==
    /\ pc[p] = "read"
    /\ local' = [local EXCEPT ![p].existing_zones =
                     get_zones_for_symbol(store, req[p].symbol, FetchDate)]
    /\ pc' = [pc EXCEPT ![p] = "extract"]
    /\ UNCHANGED <<candles, store, req, calVars, proxVars, alertVars, detVars, monVars>>

\* existing_zones = self.db.get_zones_for_symbol(symbol, fetch_day);
\* if not existing_zones: process_fetch_day
ReadExisting(p) ==
    /\ pc[p] = "read"
    /\ LET existing_zones == get_zones_for_symbol(store, req[p].symbol, FetchDate)
       IN  /\ local' = [local EXCEPT ![p].existing_zones = existing_zones]
           /\ pc' = [pc EXCEPT ![p] = IF existing_zones = <<>> THEN "extract" ELSE "done"]
    /\ UNCHANGED <<candles, store, req, calVars, proxVars, alertVars, detVars, monVars>>

\* process_fetch_day(symbol, fetch_date) is called from the fetch route
ProcessFetchDay(p) ==
    /\ pc[p] = "idle"
    /\ \E symbol \in Symbols :
           req' = [req EXCEPT ![p] = [call |-> "process_fetch_day", symbol |-> symbol]]
    /\ pc' = [pc EXCEPT ![p] = "extract"]
    /\ UNCHANGED <<candles, store, local, calVars, proxVars, alertVars, detVars, monVars>>

\* df = get_historical_data(...); if df.empty: return [];
\* zones = extract_zones(...); if not zones: return []
Extract(p) ==
    /\ pc[p] = "extract"
    /\ LET series == candles[req[p].symbol]
           extracted == IF series = <<>> THEN <<>>
                        ELSE extract_zones(series, req[p].symbol, FetchDate, TIMEFRAME)
       IN  /\ local' = [local EXCEPT ![p].zones = extracted]
           /\ pc' = [pc EXCEPT ![p] = IF extracted = <<>> THEN "done" ELSE "save"]
    /\ UNCHANGED <<candles, store, req, calVars, proxVars, alertVars, detVars, monVars>>

\* for zone in zones: success = self.db.save_zone(zone)
SaveZones(p) ==
    /\ pc[p] = "save"
    /\ LET saved == SaveLoop(store, local[p].zones, <<>>)
       IN  /\ store' = saved.table
           /\ local' = [local EXCEPT ![p].success = saved.success]
    /\ pc' = [pc EXCEPT ![p] = "done"]
    /\ UNCHANGED <<candles, req, calVars, proxVars, alertVars, detVars, monVars>>

\* the update route: success = db_manager.update_zone(symbol, fetch_day, zone_data)
UpdateZone(p) ==
    /\ pc[p] = "idle"
    /\ \E zone_data \in ManualZones, insert_fails \in BOOLEAN :
           LET updated == update_zone(store, zone_data.symbol, FetchDate, zone_data, insert_fails)
           IN  /\ req' = [req EXCEPT ![p] = [call |-> "update_zone", symbol |-> zone_data.symbol,
                                             zone_data |-> zone_data]]
               /\ store' = updated.table
               /\ local' = [local EXCEPT ![p].success = <<updated.ret>>]
    /\ pc' = [pc EXCEPT ![p] = "done"]
    /\ UNCHANGED <<candles, calVars, proxVars, alertVars, detVars, monVars>>

\* the call returns to the route's caller
Return(p) ==
    /\ pc[p] = "done"
    /\ pc' = [pc EXCEPT ![p] = "idle"]
    /\ req' = [req EXCEPT ![p] = None]
    /\ local' = [local EXCEPT ![p] = NoLocals]
    /\ UNCHANGED <<candles, store, calVars, proxVars, alertVars, detVars, monVars>>

NextStore ==
    \E p \in Callers :
        \/ GetMonitoringData(p)
        \/ ReadExisting(p)
        \/ ProcessFetchDay(p)
        \/ Extract(p)
        \/ SaveZones(p)
        \/ UpdateZone(p)
        \/ Return(p)

SpecStore == InitStore /\ [][NextStore]_vars

(***************************************************************************)
(* Store properties                                                        *)
(***************************************************************************)
\* C16: every zone in the store, saved from extract_zones or written by the
\* manual override, has zone_low <= zone_high.
C16_StoredZonesHaveLowBelowHigh ==
    \A i \in 1..Len(store) : store[i].zone_low <= store[i].zone_high

C18_UpdateZoneReplacesThePairOnly ==
    [][\A p \in Callers :
          pc[p] = "idle" /\ pc'[p] = "done" /\ req'[p].call = "update_zone" =>
              LET Z == req'[p].zone_data
                  now == get_zones_for_symbol(store', req'[p].symbol, FetchDate)
              IN  IF local'[p].success = <<TRUE>>
                  THEN /\ Len(now) = 1
                       /\ \A column \in DOMAIN Z : now[1][column] = Z[column]
                       /\ \A s \in Symbols \ {req'[p].symbol} :
                              SelectSeq(store', LAMBDA r : r.symbol = s)
                                  = SelectSeq(store, LAMBDA r : r.symbol = s)
                  ELSE local'[p].success = <<FALSE>> /\ store' = store]_vars

\* an override has replaced the two zones another caller had read for
\* RELIANCE by one, with a TCS zone in the store
C18_Witness ==
    \E p \in Callers : \E q \in Callers :
        /\ pc[p] = "done" /\ req[p].call = "update_zone" /\ local[p].success = <<TRUE>>
        /\ pc[q] = "done" /\ req[q].call = "get_monitoring_data" /\ req[q].symbol = "RELIANCE"
        /\ Len(local[q].existing_zones) = 2
        /\ Len(get_zones_for_symbol(store, "RELIANCE", FetchDate)) = 1
        /\ get_zones_for_symbol(store, "TCS", FetchDate) # <<>>

NeverOverridden(table, symbol) ==
    \A i \in 1..Len(table) :
        table[i].symbol = symbol => table[i].impulse_strength # "MANUAL"

\* C20: get_monitoring_data goes on to extract a symbol's zones only when it
\* read no stored zone for (symbol, Fetch Day); and with no manual override,
\* once zones are stored for (symbol, Fetch Day) no step of a
\* get_monitoring_data or process_fetch_day call changes them.
C20_ZonesCreatedOnceThenImmutable ==
    [][/\ \A p \in Callers :
              req[p] # None /\ req[p].call = "get_monitoring_data" /\ pc'[p] = "extract"
              /\ pc[p] # "extract"
                  => get_zones_for_symbol(store, req[p].symbol, FetchDate) = <<>>
       /\ \A s \in Symbols :
              /\ get_zones_for_symbol(store, s, FetchDate) # <<>>
              /\ NeverOverridden(store, s)
              /\ NeverOverridden(store', s)
              => get_zones_for_symbol(store', s, FetchDate)
                     = get_zones_for_symbol(store, s, FetchDate)]_vars

\* with the extracted zone stored and never overridden, one caller's
\* get_monitoring_data has read it and not extracted, and the other's
\* process_fetch_day has extracted again and saved nothing
C20_Witness ==
    \E p \in Callers : \E q \in Callers :
        /\ pc[p] = "done" /\ req[p].call = "get_monitoring_data"
        /\ local[p].existing_zones # None /\ local[p].existing_zones # <<>>
        /\ local[p].zones = None
        /\ pc[q] = "done" /\ req[q].call = "process_fetch_day" /\ req[q].symbol = req[p].symbol
        /\ local[q].success = <<FALSE>>
        /\ NeverOverridden(store, req[p].symbol)
        /\ get_zones_for_symbol(store, req[p].symbol, FetchDate) = local[p].existing_zones

\* C28: once a manual override update_zone(symbol, fetch_date, Z) and a
\* generate-if-missing flow (get_monitoring_data or process_fetch_day) of
\* another caller for the same symbol and Fetch Day have both completed,
\* whatever the interleaving of their steps, the store holds exactly the
\* manual zone Z for the pair: no extracted zone is stored alongside it.
C28_OverrideLeavesOnlyTheManualZone ==
    \A p \in Callers : \A q \in Callers \ {p} :
        /\ pc[p] = "done" /\ req[p].call = "update_zone" /\ local[p].success = <<TRUE>>
        /\ pc[q] = "done" /\ req[q].call \in {"get_monitoring_data", "process_fetch_day"}
        /\ req[q].symbol = req[p].symbol
        => LET Z == req[p].zone_data
               now == get_zones_for_symbol(store, req[p].symbol, FetchDate)
           IN  /\ Len(now) = 1
               /\ \A column \in DOMAIN Z : now[1][column] = Z[column]

(***************************************************************************)
(* Monitoring specification: one call of get_monitoring_data(execute_day,  *)
(* symbols) on each Execute Day string, day of the call, zones table,      *)
(* market data and price.  mon_calls lists the calls it makes on the       *)
(* store, the market-data client and the detector, in order.               *)
(***************************************************************************)
\* process_fetch_day from the zones extract_zones returned on: the saves
AfterExtraction(table, found) ==
    IF found = <<>>
    THEN [table |-> table, zones |-> <<>>,
          calls |-> <<"get_historical_data", "extract_zones">>]
    ELSE [table |-> SaveLoop(table, found, <<>>).table, zones |-> found,
          calls |-> <<"get_historical_data", "extract_zones">> \o
                    [i \in 1..Len(found) |-> "save_zone"]]

\* FetchDayProcessor.process_fetch_day: the table after it, the zones it
\* returns and the calls it makes
process_fetch_day(table, market, symbol, fetch_date) ==
    IF market[symbol] = <<>>
    THEN [table |-> table, zones |-> <<>>, calls |-> <<"get_historical_data">>]
    ELSE AfterExtraction(table, extract_zones(market[symbol], symbol, fetch_date, TIMEFRAME))

\* Step 2 of get_monitoring_data: generate the zones of each symbol that has
\* none stored; GenerateNext goes on after a symbol's process_fetch_day
RECURSIVE GenerateLoop(_, _, _, _, _)
RECURSIVE GenerateNext(_, _, _, _, _)
GenerateNext(processed, market, symbol_list, fetch_day, calls) ==
    GenerateLoop(processed.table, market, symbol_list, fetch_day, calls \o processed.calls)

GenerateLoop(table, market, symbol_list, fetch_day, calls) ==
    IF symbol_list = <<>> THEN [table |-> table, calls |-> calls]
    ELSE IF get_zones_for_symbol(table, Head(symbol_list), fetch_day) = <<>>
         THEN GenerateNext(process_fetch_day(table, market, Head(symbol_list), fetch_day),
                           market, Tail(symbol_list), fetch_day,
                           calls \o <<"get_zones_for_symbol">>)
         ELSE GenerateLoop(table, market, Tail(symbol_list), fetch_day,
                           calls \o <<"get_zones_for_symbol">>)

\* Step 3: kite.get_ltp for today, _get_historical_prices (one daily candle
\* request per symbol) for any other day
PriceCalls(execute_day, today, symbol_list) ==
    IF strptime(execute_day) = today THEN <<"get_ltp">>
    ELSE [i \in 1..Len(symbol_list) |-> "get_historical_data"]

\* the record of a symbol with its price and the zones read for it
ClassifiedRecord(symbol, price, found, fetch_day, execute_day) ==
    MonitoringRecord(symbol, price, found, _calculate_proximity(price, found),
                     fetch_day, execute_day)

\* Step 4: one record per symbol that has a price
RECURSIVE MonitorLoop(_, _, _, _, _, _, _)
MonitorLoop(table, price_data, symbol_list, fetch_day, execute_day, calls, data) ==
    IF symbol_list = <<>> THEN [data |-> data, calls |-> calls]
    ELSE IF price_data[Head(symbol_list)] = 0
         THEN MonitorLoop(table, price_data, Tail(symbol_list), fetch_day, execute_day,
                          calls \o <<"get_zones_for_symbol">>, data)
         ELSE MonitorLoop(table, price_data, Tail(symbol_list), fetch_day, execute_day,
                          calls \o <<"get_zones_for_symbol">>,
                          Append(data,
                                 ClassifiedRecord(Head(symbol_list),
                                     price_data[Head(symbol_list)],
                                     get_zones_for_symbol(table, Head(symbol_list), fetch_day),
                                     fetch_day, execute_day)))

\* the return of Step 4
MonitoringResult(monitored, table, fetch_day, execute_day) ==
    [ret   |-> [success     |-> TRUE,
                data        |-> monitored.data,
                fetch_day   |-> fetch_day,
                execute_day |-> execute_day,
                error       |-> None],
     table |-> table,
     calls |-> monitored.calls]

\* Steps 3 and 4 on the table Step 2 left
MonitorGenerated(generated, execute_day, symbol_list, today, fetch_day, price_data) ==
    MonitoringResult(
        MonitorLoop(generated.table, price_data, symbol_list, fetch_day, execute_day,
                    generated.calls \o PriceCalls(execute_day, today, symbol_list), <<>>),
        generated.table, fetch_day, execute_day)

\* get_monitoring_data after Step 1, going on to Step 2 whatever the
\* validation said
AfterValidation_without_gate(validated, execute_day, symbol_list, today, table, market, price_data) ==
    MonitorGenerated(GenerateLoop(table, market, symbol_list, execute_day, <<>>),
                     execute_day, symbol_list, today, execute_day, price_data)

\* get_monitoring_data after Step 1: validated is (is_valid, fetch_day, error)
AfterValidation(validated, execute_day, symbol_list, today, table, market, price_data) ==
    IF ~validated[1]
    THEN [ret   |-> [success |-> FALSE, error |-> validated[3], data |-> <<>>],
          table |-> table,
          calls |-> <<>>]
    ELSE MonitorGenerated(GenerateLoop(table, market, symbol_list, validated[2], <<>>),
                          execute_day, symbol_list, today, validated[2], price_data)

\* the dictionary returned, the table after the call and the calls made
get_monitoring_data(execute_day, symbol_list, today, table, market, price_data) ==
    AfterValidation(validate_execute_day(execute_day, today),
                    execute_day, symbol_list, today, table, market, price_data)

\* the symbols of a request
MonitoredSymbols == <<"RELIANCE", "TCS">>

\* the prices the market-data client reports; 0 stands for no price
ReportedPrices == {0, 996, 1010}

\* the zones table before the call: empty, or holding the zone extracted
\* earlier from RELIANCE's session of 2026-01-28
StoredBefore ==
    {<<>>, SaveLoop(<<>>, extract_zones(ZoneSeries, "RELIANCE", FetchDate, TIMEFRAME), <<>>).table}

\* the days on which the request is made
MonitorDays == {strptime(s) : s \in {<<2026, 1, 28>>, <<2026, 4, 1>>}}

InitMonitor ==
    /\ store \in StoredBefore
    /\ candles \in MarketData
    /\ holidays = NSE_HOLIDAYS_2026
    /\ cal_op = "init"
    /\ cal_arg \in DateStrings
    /\ cal_today \in MonitorDays
    /\ cal_end = None
    /\ cal_ret = None
    /\ ltp \in ReportedPrices
    /\ zones = <<>>
    /\ prox_ret = None
    /\ pc = <<>>
    /\ req = <<>>
    /\ local = <<>>
    /\ mon_ret = None
    /\ mon_calls = <<>>
    /\ IdleAlerts
    /\ IdleDetector

\* get_monitoring_data(cal_arg, MonitoredSymbols) on the day cal_today
GetMonitoringDataCall ==
    /\ mon_ret = None
    /\ \E called \in {get_monitoring_data(cal_arg, MonitoredSymbols, cal_today, store, candles,
                                           [s \in Symbols |-> ltp])} :
           /\ mon_ret' = called.ret
           /\ store' = called.table
           /\ mon_calls' = called.calls
    /\ UNCHANGED <<calVars, proxVars, alertVars, detVars, candles, pc, req, local>>

NextMonitor == GetMonitoringDataCall

SpecMonitor == InitMonitor /\ [][NextMonitor]_vars

(***************************************************************************)
(* Monitoring properties                                                   *)
(***************************************************************************)
\* C27: when validate_execute_day rejects the Execute Day (a string that is
\* no date, or a Fetch Day in the future), get_monitoring_data returns
\* success = False with the validation error and an empty data list, makes
\* no store read, candle fetch, extraction, store write or price fetch, and
\* leaves the store as it was.
C27_RejectedExecuteDayTouchesNothing ==
    [][(mon_ret' # mon_ret /\ ~validate_execute_day(cal_arg, cal_today)[1]) =>
           /\ mon_ret' = [success |-> FALSE,
                          error   |-> IF Parseable(cal_arg)
                                      THEN FutureError(calculate_fetch_day(cal_arg))
                                      ELSE FormatError,
                          data    |-> <<>>]
           /\ mon_calls' = <<>>
           /\ store' = store]_vars

\* a request for 2026-02-05 made on 2026-01-28 is rejected over a table that
\* holds a zone
C27_Witness ==
    /\ mon_ret # None
    /\ cal_arg = <<2026, 2, 5>>
    /\ cal_today = strptime(<<2026, 1, 28>>)
    /\ mon_ret.success = FALSE
    /\ store # <<>>
    /\ mon_calls = <<>>

====
